---------------------------- MODULE Spec2Model ----------------------------
(***************************************************************************)
(* Model of the roastomatic ESP32 firmware (src/.../main.cpp): the main    *)
(* loop(), the manual_roast program with its roast phase state machine,    *)
(* the rate-gated display / telemetry / sampling blocks and the program    *)
(* dispatch.                                                               *)
(*                                                                         *)
(* Number representation.  The firmware keeps temperatures, the weight and *)
(* the drop percentage in `float`.  The sensor readings are drawn from     *)
(* decimal values and kept as integers in hundredths of the unit: 32500 is *)
(* 325.00 F, 9010 is 90.10 g; the float such a number stands for is the    *)
(* binary32 value nearest to it.  The drop percentage, which the firmware  *)
(* computes, is kept as the binary32 value itself, a pair <<m, e>> for     *)
(* m * 2^e, and the float arithmetic that produces it rounds each          *)
(* operation to nearest-even.  Times are milliseconds held in a 32-bit     *)
(* `int`, as in the firmware.                                              *)
(***************************************************************************)
EXTENDS Integers, Sequences, FiniteSets, TLC

(***************************************************************************)
(* Program constants                                                       *)
(***************************************************************************)
ADC_BIT_DEPTH == 12
MAX_POT_VALUE == (2 ^ ADC_BIT_DEPTH) - 1
MIN_TEMP_SAMPLE_RATE == 250
MIN_LOAD_CELL_SAMPLE_RATE == 100
ROAST_WEIGHT_GRAMS == 9010
MIN_TEMP_FOR_PREHEAT == 32500
MAX_BEAN_TEMP_FOR_DONE == 8000
MAX_HEAT_DUTY_FOR_DROP == 10
MIN_SERIAL_PRINT_RATE == 250
MIN_DISPLAY_RATE == 1000 \div 60

\* enum MANUAL_ROAST_STATES
READY == 0
PREHEAT == 1
TARE == 2
LOAD == 3
CALIBRATE == 4
ROAST == 5
DROP == 6
DONE == 7
NSTATES == 8

state_strings ==
  <<"prep", "heat", "tare", "load", "cal.", "cook", "drop", "done", "wrap">>

\* state_strings[s] with the C array's 0-based index
StateString(s) == state_strings[s + 1]

\* The FUNCTIONS table as built: every test program is commented out.
FUNCTIONS == <<"manual_roast">>

NUM_BUTTONS == 5

\* Modulus each Button of the buttons[] array is constructed with;
\* buttons[0] takes the size of the FUNCTIONS table.
ButtonNStates(i, nprograms) ==
  CASE i = 0 -> nprograms
    [] i = 1 -> 3
    [] i = 2 -> 4
    [] i = 3 -> 5
    [] OTHER -> 6

(***************************************************************************)
(* Bounds of the model and the input values the environment draws from     *)
(***************************************************************************)
\* The clock (millis()) is explored up to this value.
MaxClock == 450

\* Milliseconds between the millis() call of one pass and that of the next.
PassGaps == {16, 250}
\* Milliseconds between loop()'s millis() and manual_roast()'s millis().
CallGaps == {0}
\* Milliseconds scale.tare() / scale.calibrate_scale() block for.
BlockTimes == {100}

\* Most activations of the program-select button between two reads of its
\* counter within one pass.
MaxSelectPresses == 1

\* <<fan, heat>> ADC readings: heat duty 8, 10 and 11 percent
PotReadings == {<<4095, 328>>, <<0, 450>>, <<2048, 451>>}
\* <<bean, intake>> thermocouple readings
TempReadings == {<<8000, 31000>>, <<7999, 32500>>, <<8000, 32600>>}
WeightReadings == {0, 4505, 9010, 13110}
\* Buttons the environment activates: program select and manual advance.
PressedButtons == {1}

(***************************************************************************)
(* 32-bit int arithmetic                                                   *)
(***************************************************************************)
INT_MAX == 2147483647
INT_MIN == (-2147483647) - 1

\* a - b on 32-bit two's complement ints (wrapping), computed without
\* leaving the 32-bit range in any intermediate value.
IntSub(a, b) ==
  IF b >= 0
    THEN IF a >= INT_MIN + b
           THEN a - b
           ELSE (((a - INT_MIN) - b) + INT_MAX) + 1
    ELSE IF a <= INT_MAX + b
           THEN a - b
           ELSE ((((a - INT_MAX) - 1) - b) - INT_MAX) - 1

\* a + b on 32-bit two's complement ints (wrapping), for b >= 0: the value
\* `int t = millis()` holds b milliseconds after it held a.
IntAdd(a, b) ==
  IF a <= INT_MAX - b
    THEN a + b
    ELSE INT_MIN + ((b - (INT_MAX - a)) - 1)

(***************************************************************************)
(* `float` arithmetic.  A float is a pair <<m, e>> standing for m * 2^e,   *)
(* with 2^23 <= |m| < 2^24 (or <<0, 0>>): the 24-bit significand of IEEE   *)
(* binary32.  Every operation rounds its exact result to nearest, ties to  *)
(* even.  Subnormals, infinities and NaN are outside the values modelled.  *)
(***************************************************************************)
\* Bits of the significand of a float.
F32_MANT_BITS == 24

\* Bits kept below the significand when two floats are added, and quotient
\* bits produced by one step of a division.
F32_GUARD_BITS == 6

Abs(n) == IF n < 0 THEN -n ELSE n

\* The least s in 1..7 for which n \div 2^s is below 2^24 (2^24 <= n < 2^31).
F32OverBits(n) ==
  IF n < 2 ^ 25 THEN 1
  ELSE IF n < 2 ^ 26 THEN 2
  ELSE IF n < 2 ^ 27 THEN 3
  ELSE IF n < 2 ^ 28 THEN 4
  ELSE IF n < 2 ^ 29 THEN 5
  ELSE IF n < 2 ^ 30 THEN 6
  ELSE 7

\* The float nearest to (n + f) * 2^e, for an integer n >= 0 and a fraction
\* f that is 0 if sticky is FALSE and lies strictly between 0 and 1
\* otherwise (then n >= 2^24).
RECURSIVE F32Normalize(_, _, _)
F32Normalize(n, e, sticky) ==
  IF n = 0 THEN <<0, 0>>
  ELSE IF n < 2 ^ (F32_MANT_BITS - 1) THEN F32Normalize(2 * n, e - 1, sticky)
  ELSE IF n < 2 ^ F32_MANT_BITS THEN <<n, e>>
  ELSE LET s == F32OverBits(n)
           q == n \div (2 ^ s)
           r == n % (2 ^ s)
           half == 2 ^ (s - 1)
           up == r > half \/ (r = half /\ (sticky \/ q % 2 = 1))
           q1 == IF up THEN q + 1 ELSE q
       IN IF q1 = 2 ^ F32_MANT_BITS
            THEN <<2 ^ (F32_MANT_BITS - 1), (e + s) + 1>>
            ELSE <<q1, e + s>>

\* Long division: from the quotient q and remainder r of a / b
\* (b < 2^24), the quotient bits that follow, F32_GUARD_BITS at a time,
\* until q has at least 26 bits.  <<q, n, sticky>>: q is the integer part
\* of a * 2^n / b and sticky tells whether a remainder is left.
RECURSIVE F32DivLoop(_, _, _, _)
F32DivLoop(r, b, q, n) ==
  IF q >= 2 ^ (F32_MANT_BITS + 1) THEN <<q, n, r # 0>>
  ELSE LET rr == r * (2 ^ F32_GUARD_BITS)
       IN F32DivLoop(rr % b, b, (q * (2 ^ F32_GUARD_BITS)) + (rr \div b),
                     n + F32_GUARD_BITS)

\* x / y on floats (y not 0).
F32Div(x, y) ==
  IF x[1] = 0 THEN <<0, 0>>
  ELSE LET a == Abs(x[1])
           b == Abs(y[1])
           d == F32DivLoop(a % b, b, a \div b, 0)
           z == F32Normalize(d[1], (x[2] - y[2]) - d[2], d[3])
       IN IF (x[1] < 0) # (y[1] < 0) THEN <<-z[1], z[2]>> ELSE z

\* The float that holds the decimal number v / 100.
F32FromHundredths(v) == F32Div(<<v, 0>>, <<100, 0>>)

\* k * x on floats, for an integer 0 < k < 128 converted to float.
F32MulInt(k, x) ==
  LET z == F32Normalize(Abs(x[1]) * k, x[2], FALSE)
  IN IF x[1] < 0 THEN <<-z[1], z[2]>> ELSE z

\* x + y on floats.
RECURSIVE F32Add(_, _)
F32Add(x, y) ==
  IF x[1] = 0 THEN y
  ELSE IF y[1] = 0 THEN x
  ELSE IF x[2] < y[2] THEN F32Add(y, x)
  ELSE
    LET d == x[2] - y[2]
    IN IF d <= F32_GUARD_BITS
         THEN LET n == (x[1] * (2 ^ d)) + y[1]
                  z == F32Normalize(Abs(n), y[2], FALSE)
              IN IF n < 0 THEN <<-z[1], z[2]>> ELSE z
         ELSE LET big == Abs(x[1]) * (2 ^ F32_GUARD_BITS)
                  sh == d - F32_GUARD_BITS
                  small == IF sh >= F32_MANT_BITS THEN 0
                           ELSE Abs(y[1]) \div (2 ^ sh)
                  sticky == IF sh >= F32_MANT_BITS THEN TRUE
                            ELSE Abs(y[1]) % (2 ^ sh) # 0
                  n == IF (x[1] < 0) = (y[1] < 0)
                         THEN big + small
                         ELSE (big - small) - (IF sticky THEN 1 ELSE 0)
                  z == F32Normalize(n, x[2] - F32_GUARD_BITS, sticky)
              IN IF x[1] < 0 THEN <<-z[1], z[2]>> ELSE z

\* x - y on floats.
F32Sub(x, y) == F32Add(x, <<-y[1], y[2]>>)

\* The float 0.0.
F32_ZERO == <<0, 0>>

\* The integer part of |x| + 0.5 / unit (unit 10 or 100): the integer
\* digits dtostrf prints, which adds the rounding term 0.5 / 10^prec before
\* it takes the digits.  A float is never an integer less 0.5 / unit, so
\* the sum is never a tie.
F32IntPart(x, unit) ==
  LET a == Abs(x[1]) * unit
      s == -x[2]
      v == IF s <= 0 THEN a * (2 ^ (-s))
           ELSE IF s > 30 THEN (IF s = 31 /\ a >= 2 ^ 30 THEN 1 ELSE 0)
           ELSE (a \div (2 ^ s))
                  + (IF a % (2 ^ s) >= 2 ^ (s - 1) THEN 1 ELSE 0)
  IN v \div unit

\* The greatest integer not above x * 2^k.
F32Floor(x, k) ==
  LET s == -(x[2] + k)
  IN IF s <= 0 THEN x[1] * (2 ^ (-s))
     ELSE IF s > 30 THEN (IF x[1] < 0 THEN -1 ELSE 0)
     ELSE x[1] \div (2 ^ s)

\* The greatest integer not above (n / d) * 2^k, for integers n and d > 0.
RatioFloor(n, d, k) == ((n \div d) * (2 ^ k)) + (((n % d) * (2 ^ k)) \div d)

RECURSIVE GCD(_, _)
GCD(a, b) == IF b = 0 THEN a ELSE GCD(b, a % b)

\* <<q, k>> with n = q * 2^k and q odd (n > 0).
RECURSIVE OddPart(_, _)
OddPart(n, k) == IF n % 2 = 1 THEN <<n, k>> ELSE OddPart(n \div 2, k + 1)

\* Whether the float x is the rational number n / d exactly (d > 0): both
\* are brought to lowest terms and compared.
F32IsRatio(x, n, d) ==
  IF x[1] = 0 \/ n = 0 THEN x[1] = 0 /\ n = 0
  ELSE LET g == GCD(Abs(n), d)
           n1 == Abs(n) \div g
           d1 == d \div g
           o == OddPart(Abs(x[1]), 0)
           e == x[2] + o[2]
       IN /\ (x[1] < 0) = (n < 0)
          /\ IF e >= 0
               THEN /\ d1 = 1 /\ e <= 30
                    /\ n1 % (2 ^ e) = 0 /\ n1 \div (2 ^ e) = o[1]
               ELSE /\ -e <= 30 /\ d1 = 2 ^ (-e) /\ n1 = o[1]

(***************************************************************************)
(* Button (button.h): a debounced input with a cyclic counter.             *)
(* A button is a record [count, nstates, changed].                         *)
(***************************************************************************)
\* One debounced activation: the counter advances modulo the modulus.
ButtonPress(b) ==
  [b EXCEPT !.count = (b.count + 1) % b.nstates, !.changed = TRUE]

\* changed(): whether an activation happened since the last call.
ButtonChanged(b) == b.changed

\* The button after changed() has consumed the flag.
ButtonConsume(b) == [b EXCEPT !.changed = FALSE]

\* reset(): the counter returns to 0.
ButtonReset(b) == [b EXCEPT !.count = 0]

\* The button after `if (b.changed()) { ...; b.reset(); }`, where `late`
\* tells whether an activation arrived between the two calls when changed()
\* answered true: reset() then clears the counter the activation advanced
\* and leaves its flag set.
ButtonChangedThenReset(b, late) ==
  IF ButtonChanged(b)
    THEN ButtonReset(IF late THEN ButtonPress(ButtonConsume(b))
                             ELSE ButtonConsume(b))
    ELSE ButtonConsume(b)

\* setNStates(k)
ButtonSetNStates(b, k) == [b EXCEPT !.nstates = k]

\* count()
ButtonCount(b) == b.count

(***************************************************************************)
(* loop(): potentiometer scaling and the rate gates                        *)
(***************************************************************************)
\* Variant: the reading scaled by the ADC range 2^12 instead of its maximum.
DutyPercentByRange(v) == (v * 100) \div (2 ^ ADC_BIT_DEPTH)

\* fan_duty = (fan_value * 100) / MAX_POT_VALUE, on ints
DutyPercent(v) == (v * 100) \div MAX_POT_VALUE

\* Variant: the clock itself compared with the period, not the time since
\* the last sampling.
TempSampleDueAbsolute(t, start) == t >= MIN_TEMP_SAMPLE_RATE

\* if (elapsed_temp_sample >= MIN_TEMP_SAMPLE_RATE)
TempSampleDue(t, start) == IntSub(t, start) >= MIN_TEMP_SAMPLE_RATE

\* if ((t - scale.last_time_read()) >= MIN_LOAD_CELL_SAMPLE_RATE)
LoadCellDue(t, last) == IntSub(t, last) >= MIN_LOAD_CELL_SAMPLE_RATE

\* Variant: the two timestamps compared as absolute values, so that a clock
\* value below the last render time never counts as later.
DisplayDueAbsolute(t, last) ==
  t > last /\ IntSub(t, last) > MIN_DISPLAY_RATE

\* if (t - last_display_time > MIN_DISPLAY_RATE)
DisplayDue(t, last) == IntSub(t, last) > MIN_DISPLAY_RATE

\* Variant: telemetry due as soon as the period has passed.
SerialDueInclusive(t, last) == IntSub(t, last) >= MIN_SERIAL_PRINT_RATE

\* if ((t - last_serial_write_time) > MIN_SERIAL_PRINT_RATE)
SerialDue(t, last) == IntSub(t, last) > MIN_SERIAL_PRINT_RATE

\* Variant: both channels written from the fan potentiometer.
LedcDutyFromFan(hv, fv) == [heat |-> fv, fan |-> fv]

\* ledc_set_duty(HEAT_MODE, HEAT_CHANNEL, heat_value) and
\* ledc_set_duty(FAN_MODE, FAN_CHANNEL, fan_value): the duty each channel
\* is given.
LedcDuty(hv, fv) == [heat |-> hv, fan |-> fv]

\* Variant: the comparison inverted, == for !=.
ProgramChangedInverted(cur, count) == cur = count

\* if (current_program != buttons[0].count())
ProgramChanged(cur, count) == cur # count

(***************************************************************************)
(* manual_roast(): the roast phase state machine                           *)
(***************************************************************************)
\* Variant: the phase incremented without the modulus.
ButtonAdvanceNoWrap(s) == s + 1

\* manual_roast_state = (manual_roast_state + 1) % NSTATES
ButtonAdvance(s) == (s + 1) % NSTATES

\* Variant: the threshold itself does not count as reached.
PreheatReachedStrict(intake) == intake > MIN_TEMP_FOR_PREHEAT

\* if (intake_temp_f >= MIN_TEMP_FOR_PREHEAT)
PreheatReached(intake) == intake >= MIN_TEMP_FOR_PREHEAT

\* Variant: the threshold itself does not count as cut.
HeatCutStrict(duty) == duty < MAX_HEAT_DUTY_FOR_DROP

\* if (heat_duty <= MAX_HEAT_DUTY_FOR_DROP)
HeatCut(duty) == duty <= MAX_HEAT_DUTY_FOR_DROP

\* Variant: the threshold itself counts as cooled.
BeanCooledInclusive(bean) == bean <= MAX_BEAN_TEMP_FOR_DONE

\* if (bean_temp_f < MAX_BEAN_TEMP_FOR_DONE)
BeanCooled(bean) == bean < MAX_BEAN_TEMP_FOR_DONE

\* Variant: a switch with a case for DONE that starts the next session.
SwitchStateDoneWraps(s, intake, duty, bean) ==
  CASE s = READY     -> PREHEAT
    [] s = PREHEAT   -> IF PreheatReached(intake) THEN TARE ELSE PREHEAT
    [] s = TARE      -> LOAD
    [] s = LOAD      -> LOAD
    [] s = CALIBRATE -> ROAST
    [] s = ROAST     -> IF HeatCut(duty) THEN DROP ELSE ROAST
    [] s = DROP      -> IF BeanCooled(bean) THEN DONE ELSE DROP
    [] OTHER         -> READY

\* The phase the switch statement leaves, from the phase s it evaluates.
\* case LOAD has its transition commented out; DONE has no case.
SwitchState(s, intake, duty, bean) ==
  CASE s = READY     -> PREHEAT
    [] s = PREHEAT   -> IF PreheatReached(intake) THEN TARE ELSE PREHEAT
    [] s = TARE      -> LOAD
    [] s = LOAD      -> LOAD
    [] s = CALIBRATE -> ROAST
    [] s = ROAST     -> IF HeatCut(duty) THEN DROP ELSE ROAST
    [] s = DROP      -> IF BeanCooled(bean) THEN DONE ELSE DROP
    [] OTHER         -> s

\* drop_percent = 100 * (ROAST_WEIGHT_GRAMS - weight) / ROAST_WEIGHT_GRAMS
\* on floats, evaluated left to right, for the weight w in hundredths of a
\* gram; the result is the float drop_percent holds.
DropPercent(w) ==
  LET charge == F32FromHundredths(ROAST_WEIGHT_GRAMS)
      lost == F32Sub(charge, F32FromHundredths(w))
  IN F32Div(F32MulInt(100, lost), charge)

\* Variant: the drop percentage cleared when a session starts.
DropPercentAfterSwitchReset(s, w, old) ==
  CASE s = ROAST -> DropPercent(w)
    [] s = READY -> F32_ZERO
    [] OTHER     -> old

\* drop_percent after the switch evaluated phase s with the weight w:
\* only case ROAST assigns it.
DropPercentAfterSwitch(s, w, old) ==
  IF s = ROAST THEN DropPercent(w) ELSE old

\* Variant: the drop percentage shown as it is.
DisplayDropUnclamped(dp) == dp

\* (drop_percent > 0.0) ? drop_percent : 0.0
DisplayDrop(dp) == IF dp[1] > 0 THEN dp ELSE F32_ZERO

\* Variant: the total timer started by CALIBRATE, as the roast timer is.
StartTotalTimeAtCalibrate(s, t, old) == IF s = CALIBRATE THEN t ELSE old

\* start_total_time after the switch evaluated phase s at time t
StartTotalTime(s, t, old) == IF s = READY THEN t ELSE old

\* start_roast_time after the switch evaluated phase s at time t
StartRoastTime(s, t, old) == IF s = CALIBRATE THEN t ELSE old

\* Variant: the roast timer recomputed in every phase.
ElapsedRoastTimeAlways(s, t, start, old) == IntSub(t, start)

\* elapsed_roast_time after the switch evaluated phase s at time t
ElapsedRoastTime(s, t, start, old) ==
  IF s = ROAST THEN IntSub(t, start) ELSE old

\* elapsed_total_time = t - start_total_time, after the switch
ElapsedTotalTime(t, start) == IntSub(t, start)

\* char float_string[5]
FLOAT_STRING_SIZE == 5

\* Number of decimal digits of the integer n >= 0.
Digits(n) ==
  IF n < 10 THEN 1
  ELSE IF n < 100 THEN 2
  ELSE IF n < 1000 THEN 3
  ELSE IF n < 10000 THEN 4
  ELSE IF n < 100000 THEN 5
  ELSE IF n < 1000000 THEN 6
  ELSE IF n < 10000000 THEN 7
  ELSE IF n < 100000000 THEN 8
  ELSE IF n < 1000000000 THEN 9
  ELSE 10

\* Number of characters dtostrf(x, 4, prec, buf) produces for the float x
\* with prec = 1 or 2 decimals: sign, the digits of the integer part of
\* |x| + 0.5 / 10^prec, point and decimals, padded to the minimum width 4.
DtostrfLen(x, prec) ==
  LET n == (IF x[1] < 0 THEN 1 ELSE 0)
             + Digits(F32IntPart(x, 10 ^ prec)) + 1 + prec
  IN IF n < 4 THEN 4 ELSE n

\* Bytes the three dtostrf calls of one render write past the end of
\* float_string (text and terminating 0 against FLOAT_STRING_SIZE), the
\* largest of the three, for the float dp and the temperatures bean and
\* intake in hundredths of a degree.
FloatStringOverrun(dp, bean, intake) ==
  LET over(n) == IF n + 1 > FLOAT_STRING_SIZE
                   THEN (n + 1) - FLOAT_STRING_SIZE ELSE 0
      a == over(DtostrfLen(DisplayDrop(dp), 2))
      b == over(DtostrfLen(F32FromHundredths(bean), 1))
      c == over(DtostrfLen(F32FromHundredths(intake), 1))
  IN IF a >= b /\ a >= c THEN a ELSE IF b >= c THEN b ELSE c

\* The four text lines of the display, as the values passed to dtostrf and
\* snprintf.  float_string has 5 bytes: a value that formats to more than
\* four characters, such as 50.00 or 325.0, is written past its end, into
\* the stack frame of manual_roast(); `overrun` is the number of bytes.  The
\* session globals are in static storage, outside that frame.
DisplayFrame(s, dp, roast_ms, total_ms, fd, bean, hd, intake) ==
  [phase |-> StateString(s), drop |-> DisplayDrop(dp),
   roast_ms |-> roast_ms, total_ms |-> total_ms,
   fan_duty |-> fd, bean |-> bean, heat_duty |-> hd, intake |-> intake,
   overrun |-> FloatStringOverrun(dp, bean, intake)]

\* Variant: the two temperatures printed in the other order.
SerialLineIntakeFirst(roast_ms, total_ms, s, fv, hv, bean, intake, w, dp) ==
  <<roast_ms, total_ms, StateString(s), fv, hv, intake, bean, w, dp>>

\* The comma-separated fields of one telemetry line, in print order.
SerialLine(roast_ms, total_ms, s, fv, hv, bean, intake, w, dp) ==
  <<roast_ms, total_ms, StateString(s), fv, hv, bean, intake, w, dp>>

\* Variant: the tare issued by case LOAD instead of case TARE.
RoastEventsTareInLoad(advance, s, render, telemetry) ==
  (IF advance THEN <<"advance">> ELSE <<>>)
  \o <<"switch">>
  \o (IF s = LOAD THEN <<"tare">> ELSE <<>>)
  \o (IF s = CALIBRATE THEN <<"calibrate">> ELSE <<>>)
  \o (IF render THEN <<"render">> ELSE <<>>)
  \o (IF telemetry THEN <<"telemetry">> ELSE <<>>)

\* The calls one manual_roast() call makes, in program order.
RoastEvents(advance, s, render, telemetry) ==
  (IF advance THEN <<"advance">> ELSE <<>>)
  \o <<"switch">>
  \o (IF s = TARE THEN <<"tare">> ELSE <<>>)
  \o (IF s = CALIBRATE THEN <<"calibrate">> ELSE <<>>)
  \o (IF render THEN <<"render">> ELSE <<>>)
  \o (IF telemetry THEN <<"telemetry">> ELSE <<>>)

\* The roast session globals of the record g of globals.
SessionOf(g) ==
  [manual_roast_state |-> g.state,
   start_total_time |-> g.start_total_time,
   start_roast_time |-> g.start_roast_time,
   elapsed_total_time |-> g.elapsed_total_time,
   elapsed_roast_time |-> g.elapsed_roast_time,
   drop_percent |-> g.drop_percent]

\* Variant: the render block stores the clamped drop percentage it shows.
RenderBlockClampsDrop(t, g) ==
  [g EXCEPT !.last_display_time = t,
            !.drop_percent = DisplayDrop(g.drop_percent)]

\* The globals after the body of `if (t - last_display_time > ...)`.
RenderBlock(t, g) == [g EXCEPT !.last_display_time = t]

\* The globals after the body of `if ((t - last_serial_write_time) > ...)`.
TelemetryBlock(t, g) == [g EXCEPT !.last_serial_write_time = t]

\* The globals after the button check, the switch and the assignment of
\* elapsed_total_time, from the phase s1 the switch evaluates.
AfterSwitch(t, g, s1) ==
  LET stt == StartTotalTime(s1, t, g.start_total_time)
      srt == StartRoastTime(s1, t, g.start_roast_time)
  IN [g EXCEPT
        !.state = SwitchState(s1, g.intake, g.heat_duty, g.bean),
        !.drop_percent = DropPercentAfterSwitch(s1, g.weight, g.drop_percent),
        !.start_total_time = stt,
        !.start_roast_time = srt,
        !.elapsed_roast_time = ElapsedRoastTime(s1, t, srt, g.elapsed_roast_time),
        !.elapsed_total_time = ElapsedTotalTime(t, stt)]

\* The result of one call, from the globals g1 after the switch, g2 after
\* the render block and g3 after the telemetry block.
RoastResult(g1, g2, g3, b1, s1, advance, render, telemetry) ==
  [state |-> g3.state, button |-> b1, evaluated |-> s1, advance |-> advance,
   drop_percent |-> g3.drop_percent,
   start_total_time |-> g3.start_total_time,
   start_roast_time |-> g3.start_roast_time,
   elapsed_roast_time |-> g3.elapsed_roast_time,
   elapsed_total_time |-> g3.elapsed_total_time,
   last_display_time |-> g3.last_display_time,
   last_serial_write_time |-> g3.last_serial_write_time,
   at_switch |-> SessionOf(g1),
   display |->
     IF render
       THEN <<DisplayFrame(g1.state, g1.drop_percent, g1.elapsed_roast_time,
                           g1.elapsed_total_time, g1.fan_duty, g1.bean,
                           g1.heat_duty, g1.intake)>>
       ELSE <<>>,
   serial |->
     IF telemetry
       THEN <<SerialLine(g2.elapsed_roast_time, g2.elapsed_total_time,
                         g2.state, g2.fan_value, g2.heat_value, g2.bean,
                         g2.intake, g2.weight, g2.drop_percent)>>
       ELSE <<>>,
   blocks |-> s1 \in {TARE, CALIBRATE},
   events |-> RoastEvents(advance, s1, render, telemetry)]

\* One call of manual_roast() at millis() = t on the globals g.  The result
\* holds the globals it leaves, the session globals as they stood between
\* the switch and the render block, what it sent to the display and the
\* serial port, and the calls it made, in order.  `late` tells whether an
\* activation of button 1 arrived between its changed() and its reset().
ManualRoast(t, g, late) ==
  LET advance == ButtonChanged(g.button)
      s1 == IF advance THEN ButtonAdvance(g.state) ELSE g.state
      b1 == ButtonChangedThenReset(g.button, late)
      render == DisplayDue(t, g.last_display_time)
      telemetry == SerialDue(t, g.last_serial_write_time)
      g1 == AfterSwitch(t, g, s1)
      g2 == IF render THEN RenderBlock(t, g1) ELSE g1
      g3 == IF telemetry THEN TelemetryBlock(t, g2) ELSE g2
  IN RoastResult(g1, g2, g3, b1, s1, advance, render, telemetry)

(***************************************************************************)
(* Program setup functions and the diagnostic programs                     *)
(***************************************************************************)
\* The buttons after the setup function of program `name`.
SetupButtons(name, bs) ==
  CASE name = "test_display" ->
         [bs EXCEPT ![1] = ButtonSetNStates(bs[1], 4)]
    [] name = "test_load_cell" ->
         [bs EXCEPT ![1] = ButtonSetNStates(bs[1], 2),
                    ![2] = ButtonSetNStates(bs[2], 2),
                    ![3] = ButtonSetNStates(bs[3], 5),
                    ![4] = ButtonSetNStates(bs[4], 8)]
    [] name = "manual_roast" ->
         [bs EXCEPT ![1] = ButtonSetNStates(bs[1], 2)]
    [] OTHER -> bs

\* manual_roast_state after the setup function of program `name`.
SetupState(name, s) == IF name = "manual_roast" THEN READY ELSE s

\* test_load_cell(): buttons 1 and 2 each trigger a delay of 2 s followed
\* by a blocking call of the scale (tare, calibrate_scale) and are reset,
\* button 3 selects the HX711 mode; then the screen is drawn, and the row
\* "Value:" takes a fresh reading with scale.get_value(), which moves
\* scale.last_time_read() to the time of that reading (`reads`).  `delay`
\* is the time spent in delay() and `calls` the number of blocking calls.
\* late1 and late2 tell whether an activation of button 1, of button 2,
\* arrived during its wait, between its changed() and its reset().
TestLoadCell(bs, late1, late2) ==
  LET tare == ButtonChanged(bs[1])
      cal == ButtonChanged(bs[2])
  IN [buttons |->
        [bs EXCEPT
           ![1] = ButtonChangedThenReset(bs[1], late1),
           ![2] = ButtonChangedThenReset(bs[2], late2),
           ![3] = ButtonConsume(bs[3])],
      delay |-> (IF tare THEN 2000 ELSE 0) + (IF cal THEN 2000 ELSE 0),
      calls |-> (IF tare THEN 1 ELSE 0) + (IF cal THEN 1 ELSE 0),
      blocks |-> tare \/ cal,
      reads |-> TRUE,
      events |-> (IF tare THEN <<"tare">> ELSE <<>>)
                 \o (IF cal THEN <<"calibrate">> ELSE <<>>)
                 \o <<"scale.get_value", "render">>]

(***************************************************************************)
(* State                                                                   *)
(***************************************************************************)
VARIABLES
  clock,                  \* millis() at the latest point the firmware reached
  functions,              \* the FUNCTIONS table the firmware was built with
  buttons,                \* buttons[NUM_BUTTONS]
  current_program,
  fan_value, heat_value,  \* raw ADC readings
  fan_duty, heat_duty,    \* percent
  bean_temp_f, intake_temp_f,
  start_temp_sample,
  weight,
  scale_last_read,        \* scale.last_time_read()
  heat_pwm, fan_pwm,      \* duty last written with ledc_set_duty
  manual_roast_state,
  drop_percent,
  start_roast_time, elapsed_roast_time,
  start_total_time, elapsed_total_time,
  last_display_time, last_serial_write_time,
  display_out,            \* what the last pass drew: <<>> or <<frame>>
  serial_out,             \* what the last pass printed: <<>> or <<line>>
  events,                 \* the calls of the last pass, in order
  loop_t,                 \* local t of the last loop() pass
  roast_t,                \* local t of the last manual_roast() call
  evaluated,              \* phase the switch of the last pass evaluated
  at_switch,              \* the session globals as the last manual_roast()
                          \* call held them between switch and render block
  dispatched,             \* program index the last pass dispatched, -1: none
  calm                    \* consecutive passes, up to now, without a manual
                          \* advance and with every forward guard satisfied

vars ==
  <<clock, functions, buttons, current_program, fan_value, heat_value,
    fan_duty, heat_duty, bean_temp_f, intake_temp_f, start_temp_sample,
    weight, scale_last_read, heat_pwm, fan_pwm, manual_roast_state,
    drop_percent, start_roast_time, elapsed_roast_time, start_total_time,
    elapsed_total_time, last_display_time, last_serial_write_time,
    display_out, serial_out, events, loop_t, roast_t, evaluated,
    at_switch, dispatched, calm>>

\* The globals after static initialisation and setup(), built with `table`.
InitWith(table) ==
  /\ clock = 0
  /\ functions = table
  /\ buttons = [i \in 0 .. NUM_BUTTONS - 1 |->
                  [count |-> 0, nstates |-> ButtonNStates(i, Len(table)),
                   changed |-> FALSE]]
  /\ current_program = 0
  /\ fan_value = 0 /\ heat_value = 0 /\ fan_duty = 0 /\ heat_duty = 0
  /\ bean_temp_f = 0 /\ intake_temp_f = 0 /\ start_temp_sample = 0
  /\ weight = 0 /\ scale_last_read = 0
  /\ heat_pwm = 0 /\ fan_pwm = 0
  /\ manual_roast_state = READY
  /\ drop_percent = F32_ZERO
  /\ start_roast_time = 0 /\ elapsed_roast_time = 0
  /\ start_total_time = 0 /\ elapsed_total_time = 0
  /\ last_display_time = 0 /\ last_serial_write_time = 0
  /\ display_out = <<>> /\ serial_out = <<>> /\ events = <<>>
  /\ loop_t = 0 /\ roast_t = 0
  /\ evaluated = NSTATES
  /\ at_switch = [manual_roast_state |-> READY, start_total_time |-> 0,
                  start_roast_time |-> 0, elapsed_total_time |-> 0,
                  elapsed_roast_time |-> 0, drop_percent |-> F32_ZERO]
  /\ dispatched = -1
  /\ calm = 0

Init == InitWith(FUNCTIONS)

\* Every guard of the forward path is satisfied: the intake is hot enough,
\* the load exceeds half the charge, the heat is cut and the beans are cool.
ForwardGuards(intake, w, duty, bean) ==
  /\ PreheatReached(intake)
  /\ 2 * w > ROAST_WEIGHT_GRAMS
  /\ HeatCut(duty)
  /\ BeanCooled(bean)

(***************************************************************************)
(* One pass of loop()                                                      *)
(***************************************************************************)
\* The calls loop() makes before it runs the selected program, in order.
LoopEvents(tempDue, scaleDue, setup) ==
  <<"read_pots">>
  \o (IF tempDue THEN <<"sample_temps">> ELSE <<>>)
  \o <<"write_pwm">>
  \o (IF scaleDue THEN <<"sample_scale">> ELSE <<>>)
  \o (IF setup THEN <<"setup">> ELSE <<>>)

\* Activations of the program-select button that arrive while loop() selects
\* the program: <<k1, k2>> is k1 activations between the comparison with
\* current_program and the read that indexes the setup function, and k2
\* between that read and the one that indexes the per-iteration function.
SelectPresses == (0 .. MaxSelectPresses) \X (0 .. MaxSelectPresses)

\* No activation of the program-select button during a pass.
NoSelectPresses == {<<0, 0>>}

\* The button after k activations.
RECURSIVE ButtonPresses(_, _)
ButtonPresses(b, k) ==
  IF k = 0 THEN b ELSE ButtonPresses(ButtonPress(b), k - 1)

\* Whether an activation of button b may arrive between its changed() and
\* its reset(): the window exists when changed() answers true.
LatePresses(b) == IF ButtonChanged(b) THEN BOOLEAN ELSE {FALSE}

\* One pass of loop(), with the potentiometer, thermocouple and load-cell
\* readings drawn from potSet, tempSet and weightSet and the time since the
\* previous pass from gapSet.  Passes start until the clock is `span`
\* milliseconds past `origin`.  loop() reads buttons[0].count() up to three
\* times; the activations of that button that arrive between the reads are
\* drawn from selSet.  The program
\* tests changed() of a button and, after its waits, calls reset(); an
\* activation of that button may arrive in between.  Any other activation
\* during a pass leaves the state of one before or after the pass.
Pass(potSet, gapSet, tempSet, weightSet, origin, span, selSet) ==
  \E gap \in gapSet, pots \in potSet,
     cg \in CallGaps, bl \in BlockTimes, bl2 \in BlockTimes,
     mid \in selSet :
    LET t == IntAdd(clock, gap)
        tr == IntAdd(t, cg)
        duty == LedcDuty(pots[2], pots[1])
        fv == pots[1]
        hv == pots[2]
        tempDue == TempSampleDue(t, start_temp_sample)
        scaleDue == LoadCellDue(t, scale_last_read)
        setup == ProgramChanged(current_program, ButtonCount(buttons[0]))
        sel1 == ButtonPresses(buttons[0], mid[1])
        setupName == functions[ButtonCount(sel1) + 1]
        sel2 == ButtonPresses(sel1, mid[2])
        p == ButtonCount(sel2)
        name == functions[p + 1]
        bs == [buttons EXCEPT ![0] = sel2]
        bs0 == IF setup THEN SetupButtons(setupName, bs) ELSE bs
        s0 == IF setup THEN SetupState(setupName, manual_roast_state)
                       ELSE manual_roast_state
        head == LoopEvents(tempDue, scaleDue, setup)
    IN
    /\ IntSub(tr, origin) <= span
    /\ loop_t' = t
    /\ fan_value' = fv /\ heat_value' = hv
    /\ fan_duty' = DutyPercent(fv) /\ heat_duty' = DutyPercent(hv)
    /\ IF tempDue
         THEN /\ \E temps \in tempSet :
                   bean_temp_f' = temps[1] /\ intake_temp_f' = temps[2]
              /\ start_temp_sample' = t
         ELSE UNCHANGED <<bean_temp_f, intake_temp_f, start_temp_sample>>
    /\ heat_pwm' = duty.heat /\ fan_pwm' = duty.fan
    /\ IF scaleDue
         THEN \E w \in weightSet : weight' = w
         ELSE UNCHANGED weight
    /\ UNCHANGED <<functions, current_program>>
    /\ dispatched' = p
    /\ IF name = "manual_roast"
         THEN
           \E late \in LatePresses(bs0[1]) :
           \E r \in {ManualRoast(tr,
                      [state |-> s0, button |-> bs0[1],
                       intake |-> intake_temp_f', bean |-> bean_temp_f',
                       weight |-> weight',
                       fan_value |-> fv, heat_value |-> hv,
                       fan_duty |-> fan_duty', heat_duty |-> heat_duty',
                       drop_percent |-> drop_percent,
                       start_total_time |-> start_total_time,
                       start_roast_time |-> start_roast_time,
                       elapsed_roast_time |-> elapsed_roast_time,
                       elapsed_total_time |-> elapsed_total_time,
                       last_display_time |-> last_display_time,
                       last_serial_write_time |-> last_serial_write_time],
                      late)} :
           LET stop == IF r.blocks THEN IntAdd(tr, bl) ELSE tr
           IN /\ roast_t' = tr
              /\ manual_roast_state' = r.state
              /\ buttons' = [bs0 EXCEPT ![1] = r.button]
              /\ evaluated' = r.evaluated
              /\ at_switch' = r.at_switch
              /\ drop_percent' = r.drop_percent
              /\ start_total_time' = r.start_total_time
              /\ start_roast_time' = r.start_roast_time
              /\ elapsed_roast_time' = r.elapsed_roast_time
              /\ elapsed_total_time' = r.elapsed_total_time
              /\ last_display_time' = r.last_display_time
              /\ last_serial_write_time' = r.last_serial_write_time
              /\ display_out' = r.display
              /\ serial_out' = r.serial
              /\ events' = head \o r.events
              /\ clock' = stop
              /\ scale_last_read' =
                   IF r.blocks THEN stop
                   ELSE IF scaleDue THEN t ELSE scale_last_read
              /\ calm' =
                   IF ~r.advance /\ ForwardGuards(intake_temp_f', weight',
                                                  heat_duty', bean_temp_f')
                     THEN IF calm < NSTATES - 1 THEN calm + 1 ELSE calm
                     ELSE 0
         ELSE
           \E late1 \in LatePresses(bs0[1]), late2 \in LatePresses(bs0[2]) :
           \E r \in {IF name = "test_load_cell"
                      THEN TestLoadCell(bs0, late1, late2)
                      ELSE [buttons |-> bs0, delay |-> 0, calls |-> 0,
                            blocks |-> FALSE, reads |-> FALSE,
                            events |-> <<"render">>]} :
           LET stop == IF r.calls = 2
                         THEN IntAdd(IntAdd(IntAdd(t, r.delay), bl), bl2)
                       ELSE IF r.calls = 1 THEN IntAdd(IntAdd(t, r.delay), bl)
                       ELSE t
           IN /\ buttons' = r.buttons
              /\ manual_roast_state' = s0
              /\ display_out' = <<[program |-> name]>>
              /\ serial_out' = <<>>
              /\ events' = head \o r.events
              /\ evaluated' = NSTATES
              /\ clock' = stop
              /\ scale_last_read' =
                   IF r.blocks \/ r.reads THEN stop
                   ELSE IF scaleDue THEN t ELSE scale_last_read
              /\ calm' = 0
              /\ UNCHANGED <<roast_t, at_switch, drop_percent, start_total_time,
                             start_roast_time, elapsed_roast_time,
                             elapsed_total_time, last_display_time,
                             last_serial_write_time>>

\* A debounced activation of button i.
Press(i) ==
  /\ buttons' = [buttons EXCEPT ![i] = ButtonPress(buttons[i])]
  /\ UNCHANGED <<clock, functions, current_program, fan_value, heat_value,
                 fan_duty, heat_duty, bean_temp_f, intake_temp_f,
                 start_temp_sample, weight, scale_last_read, heat_pwm,
                 fan_pwm, manual_roast_state, drop_percent, start_roast_time,
                 elapsed_roast_time, start_total_time, elapsed_total_time,
                 last_display_time, last_serial_write_time, display_out,
                 serial_out, events, loop_t, roast_t, evaluated, at_switch,
                 dispatched, calm>>

\* One pass from start-up until MaxClock, under the thermocouple and
\* load-cell readings of TempReadings and WeightReadings.
LoopWith(potSet, gapSet) ==
  Pass(potSet, gapSet, TempReadings, WeightReadings, 0, MaxClock,
       NoSelectPresses)

Loop == LoopWith(PotReadings, PassGaps)

Next == Loop \/ (\E i \in PressedButtons : Press(i))

\* The firmware as built, the operator using the advance button (1).  The
\* program-select button (0) has modulus 1 in this build: its counter stays
\* 0 and the firmware never calls its changed().
Spec == Init /\ [][Next]_vars

\* The firmware as built with the program-select button in use as well:
\* activations of button 0 between passes and between the reads of its
\* counter within a pass, passes 16 or 100 ms apart, one potentiometer
\* setting and one reading per sensor.
SelectButtons == {0, 1}

SelectGaps == {16, 100}

SelectPots == {<<4095, 328>>}

SelectTemps == {<<8000, 32600>>}

SelectWeights == {4505}

SelectPass ==
  Pass(SelectPots, SelectGaps, SelectTemps, SelectWeights, 0, MaxClock,
       SelectPresses)

NextSelect == SelectPass \/ (\E i \in SelectButtons : Press(i))

SpecSelect == Init /\ [][NextSelect]_vars

\* The firmware as built, over the whole range of the potentiometers: one
\* pass with the fan reading v and the heat reading MAX_POT_VALUE - v.
AllPotReadings == {<<v, MAX_POT_VALUE - v>> : v \in 0 .. MAX_POT_VALUE}

ScanGaps == {MaxClock}

PotScan == LoopWith(AllPotReadings, ScanGaps)

SpecPots == Init /\ [][PotScan]_vars

\* The firmware as built, observed long enough for every rate gate to run
\* twice and for a second session to print telemetry: one potentiometer
\* setting and one reading per sensor, passes 16 or 251 ms apart, with
\* manual advances.
RateSpan == 660

RateGaps == {16, 251}

RatePots == {<<4095, 451>>}

RateTemps == {<<8000, 32600>>}

RateWeights == {4505}

RatePass ==
  Pass(RatePots, RateGaps, RateTemps, RateWeights, 0, RateSpan,
       NoSelectPresses)

NextRates == RatePass \/ Press(1)

SpecRates == Init /\ [][NextRates]_vars

\* The firmware as built after an uptime of INT_MAX - WrapLead ms, the value
\* of `int t = millis()` about to pass from INT_MAX to INT_MIN: the session
\* waits in LOAD, where a run without manual advance stays, and the last
\* pass, at that time, ran every gate.
WrapLead == 300

WrapSpan == 600

WrapOrigin == INT_MAX - WrapLead

WrapGaps == {16, 17, 251}

WrapPots == {<<4095, 451>>}

WrapTemps == {<<8000, 32600>>}

WrapWeights == {9010}

InitWrap ==
  /\ clock = WrapOrigin
  /\ functions = FUNCTIONS
  /\ buttons = [i \in 0 .. NUM_BUTTONS - 1 |->
                  [count |-> 0, nstates |-> ButtonNStates(i, Len(FUNCTIONS)),
                   changed |-> FALSE]]
  /\ current_program = 0
  /\ fan_value = 4095 /\ heat_value = 451
  /\ fan_duty = DutyPercent(4095) /\ heat_duty = DutyPercent(451)
  /\ bean_temp_f = 8000 /\ intake_temp_f = 32600
  /\ start_temp_sample = WrapOrigin
  /\ weight = 9010 /\ scale_last_read = WrapOrigin
  /\ heat_pwm = 451 /\ fan_pwm = 4095
  /\ manual_roast_state = LOAD
  /\ drop_percent = F32_ZERO
  /\ start_roast_time = 0 /\ elapsed_roast_time = 0
  /\ start_total_time = 16 /\ elapsed_total_time = IntSub(WrapOrigin, 16)
  /\ last_display_time = WrapOrigin /\ last_serial_write_time = WrapOrigin
  /\ display_out =
       <<DisplayFrame(LOAD, F32_ZERO, 0, IntSub(WrapOrigin, 16),
                      DutyPercent(4095),
                      8000, DutyPercent(451), 32600)>>
  /\ serial_out =
       <<SerialLine(0, IntSub(WrapOrigin, 16), LOAD, 4095, 451, 8000, 32600,
                    9010, F32_ZERO)>>
  /\ events = LoopEvents(TRUE, TRUE, FALSE)
                \o RoastEvents(FALSE, LOAD, TRUE, TRUE)
  /\ loop_t = WrapOrigin /\ roast_t = WrapOrigin
  /\ evaluated = LOAD
  /\ at_switch = [manual_roast_state |-> LOAD, start_total_time |-> 16,
                  start_roast_time |-> 0,
                  elapsed_total_time |-> IntSub(WrapOrigin, 16),
                  elapsed_roast_time |-> 0, drop_percent |-> F32_ZERO]
  /\ dispatched = 0
  /\ calm = 0

WrapPass ==
  Pass(WrapPots, WrapGaps, WrapTemps, WrapWeights, WrapOrigin, WrapSpan,
       NoSelectPresses)

SpecWrap == InitWrap /\ [][WrapPass]_vars

(***************************************************************************)
(* Properties                                                              *)
(***************************************************************************)
\* Whether the call e is in the call sequence ev of a pass.
Has(ev, e) == \E i \in 1 .. Len(ev) : ev[i] = e

\* Every call a in ev comes before every call b in ev.
Before(ev, a, b) ==
  \A i, j \in 1 .. Len(ev) : (ev[i] = a /\ ev[j] = b) => i < j

\* How many times the call e is in ev.
Count(ev, e) == Cardinality({i \in 1 .. Len(ev) : ev[i] = e})

\* C1: without a manual advance a pass moves the phase by at most one step
\* forward, and a run of passes in which every forward guard is satisfied
\* (one pass per transition READY..DONE) ends in DONE.
C1_ForwardRunReachesDone ==
  [][(roast_t' # roast_t /\ ~Has(events', "advance"))
       => /\ manual_roast_state' \in
               {manual_roast_state, manual_roast_state + 1}
          /\ calm' >= NSTATES - 1 => manual_roast_state' = DONE]_vars

\* C2: within a pass sensor refresh comes before the state machine, the
\* state machine before render and telemetry, and render and telemetry
\* before the actuator duty writes.
C2_ActuatorsLast ==
  /\ Before(events, "sample_temps", "switch")
  /\ Before(events, "sample_scale", "switch")
  /\ Before(events, "switch", "render")
  /\ Before(events, "switch", "telemetry")
  /\ Before(events, "render", "write_pwm")
  /\ Before(events, "telemetry", "write_pwm")

\* C3 as claimed: each gate runs exactly when the time since its last run
\* has reached its period (250 ms, 1000/60 ms, 250 ms).
C3_GatesInclusive ==
  [][(roast_t' # roast_t)
       => /\ Has(events', "sample_temps")
               <=> loop_t' - start_temp_sample >= 250
          /\ Has(events', "render")
               <=> 60 * (roast_t' - last_display_time) >= 1000
          /\ Has(events', "telemetry")
               <=> roast_t' - last_serial_write_time >= 250]_vars

\* C3: temperature sampling runs exactly when at least 250 ms have passed
\* since it last ran; render exactly when more than 16 ms, and telemetry
\* exactly when more than 250 ms, have passed since they last ran.
C3_Gates ==
  [][(roast_t' # roast_t)
       => /\ Has(events', "sample_temps")
               <=> loop_t' - start_temp_sample >= 250
          /\ Has(events', "render") <=> roast_t' - last_display_time > 16
          /\ Has(events', "telemetry")
               <=> roast_t' - last_serial_write_time > 250]_vars

\* The pass at 266 ms after the pass at 250 ms: temperature sampling ran at
\* 250 ms (equal to its period), telemetry did not, and runs now.
C3_Witness ==
  /\ roast_t = 266
  /\ start_temp_sample = 250
  /\ last_serial_write_time = 266
  /\ Has(events, "telemetry") /\ ~Has(events, "sample_temps")

\* C4: a pass without a manual advance that evaluates PREHEAT leaves TARE
\* if the intake temperature is at least 325 F and PREHEAT otherwise.
C4_PreheatToTare ==
  (evaluated = PREHEAT /\ ~Has(events, "advance"))
    => IF intake_temp_f >= 32500
         THEN manual_roast_state = TARE
         ELSE manual_roast_state = PREHEAT

\* A pass that evaluated PREHEAT at 326 F and moved to TARE.
C4_Witness ==
  /\ evaluated = PREHEAT /\ ~Has(events, "advance")
  /\ intake_temp_f = 32600
  /\ manual_roast_state = TARE

\* C5: a pass without a manual advance that evaluates ROAST leaves DROP if
\* the heater duty computed in this pass from the heat potentiometer is at
\* most 10 percent and ROAST otherwise.
C5_RoastToDrop ==
  (evaluated = ROAST /\ ~Has(events, "advance"))
    => /\ heat_duty * MAX_POT_VALUE <= heat_value * 100
       /\ heat_value * 100 < (heat_duty + 1) * MAX_POT_VALUE
       /\ IF heat_duty <= 10
            THEN manual_roast_state = DROP
            ELSE manual_roast_state = ROAST

\* A pass that evaluated ROAST at 8 percent heater duty and moved to DROP.
C5_Witness ==
  /\ evaluated = ROAST /\ ~Has(events, "advance")
  /\ heat_duty = 8
  /\ manual_roast_state = DROP

\* C6 as claimed: after every manual_roast pass both timers are current.
C6_BothTimersCurrent ==
  Has(events, "switch")
    => /\ elapsed_roast_time = roast_t - start_roast_time
       /\ elapsed_total_time = roast_t - start_total_time

\* C6: every manual_roast pass leaves elapsed_total_time current; it leaves
\* elapsed_roast_time current if its switch evaluates ROAST and unchanged
\* otherwise.
C6_Timers ==
  [][(roast_t' # roast_t)
       => /\ elapsed_total_time' = roast_t' - start_total_time'
          /\ IF evaluated' = ROAST
               THEN elapsed_roast_time' = roast_t' - start_roast_time'
               ELSE elapsed_roast_time' = elapsed_roast_time]_vars

\* A pass in DROP or DONE whose roast timer stands at the last ROAST pass.
C6_Witness ==
  /\ evaluated \in {DROP, DONE}
  /\ elapsed_roast_time > 0
  /\ elapsed_roast_time < roast_t - start_roast_time
  /\ elapsed_total_time = roast_t - start_total_time

C9_DutyPercent ==
  Has(events, "read_pots")
    => /\ fan_duty \in 0 .. 100 /\ heat_duty \in 0 .. 100
       /\ fan_duty * 4095 <= fan_value * 100
       /\ fan_value * 100 < (fan_duty + 1) * 4095
       /\ heat_duty * 4095 <= heat_value * 100
       /\ heat_value * 100 < (heat_duty + 1) * 4095
       /\ fan_duty = 100 <=> fan_value = 4095
       /\ heat_duty = 100 <=> heat_value = 4095

\* The fan reading 4094 gives 99 percent and the heat reading 1 gives 0.
C9_Witness ==
  /\ Has(events, "read_pots")
  /\ fan_value = 4094 /\ fan_duty = 99
  /\ heat_value = 1 /\ heat_duty = 0

\* The eight phase names.
PhaseNames ==
  <<"prep", "heat", "tare", "load", "cal.", "cook", "drop", "done">>

\* C10: a due telemetry tick prints one line with the fields elapsed roast
\* time, elapsed total time, phase name, fan reading, heat reading, bean
\* temperature, intake temperature, weight, drop percent; the phase name is
\* that of the phase the pass ends in, one of the eight names.
C10_TelemetryLine ==
  /\ Has(events, "telemetry") <=> Len(serial_out) = 1
  /\ Count(events, "telemetry") <= 1
  /\ Len(serial_out) <= 1
  /\ Len(serial_out) = 1
       => /\ Len(serial_out[1]) = 9
          /\ serial_out[1][1] = elapsed_roast_time
          /\ serial_out[1][2] = elapsed_total_time
          /\ manual_roast_state \in 0 .. 7
          /\ serial_out[1][3] = PhaseNames[manual_roast_state + 1]
          /\ serial_out[1][4] = fan_value
          /\ serial_out[1][5] = heat_value
          /\ serial_out[1][6] = bean_temp_f
          /\ serial_out[1][7] = intake_temp_f
          /\ serial_out[1][8] = weight
          /\ serial_out[1][9] = drop_percent

\* A telemetry line printed in the pass that moved from ROAST to DROP.
C10_Witness ==
  /\ Len(serial_out) = 1
  /\ evaluated = ROAST
  /\ serial_out[1][3] = "drop"
  /\ serial_out[1][4] # serial_out[1][5]
  /\ serial_out[1][9] # <<0, 0>>

\* C11: a pass whose switch evaluates READY leaves PREHEAT, sets
\* start_total_time to the time of the pass and ends with elapsed_total_time
\* equal to 0, whatever the sensors read.
C11_ReadyPass ==
  evaluated = READY
    => /\ manual_roast_state = PREHEAT
       /\ start_total_time = roast_t
       /\ elapsed_total_time = 0

\* A pass that evaluated READY again after a manual wrap, with the intake
\* above the preheat threshold.
C11_Witness ==
  /\ evaluated = READY /\ Has(events, "advance")
  /\ roast_t > 250
  /\ intake_temp_f = 32600
  /\ manual_roast_state = PREHEAT /\ start_total_time = roast_t

\* C12: a pass without a manual advance that evaluates DROP leaves DONE if
\* the bean temperature is below 80 F and DROP if it is 80 F or more.
C12_DropToDone ==
  (evaluated = DROP /\ ~Has(events, "advance"))
    => IF bean_temp_f < 8000
         THEN manual_roast_state = DONE
         ELSE manual_roast_state = DROP

\* A pass that evaluated DROP at exactly 80 F and stayed in DROP.
C12_Witness ==
  /\ evaluated = DROP /\ ~Has(events, "advance")
  /\ bean_temp_f = 8000
  /\ manual_roast_state = DROP

\* C13: every pass writes the duties once, the heater duty being the heat
\* potentiometer reading of that pass and the fan duty the fan potentiometer
\* reading of that pass, in every phase and under every sensor value.
C13_PwmPassThrough ==
  events # <<>>
    => /\ Count(events, "write_pwm") = 1
       /\ Before(events, "read_pots", "write_pwm")
       /\ heat_pwm = heat_value
       /\ fan_pwm = fan_value

\* A pass in DONE, the intake hot and the scale overloaded, that wrote the
\* heater duty 451 and the fan duty 2048 just read.
C13_Witness ==
  /\ evaluated = DONE /\ manual_roast_state = DONE
  /\ intake_temp_f = 32600 /\ weight = 13110
  /\ heat_value = 451 /\ heat_pwm = 451
  /\ fan_value = 2048 /\ fan_pwm = 2048

\* C14 as claimed: whenever the phase changes from TARE to LOAD, the pass
\* that changes it issued a tare.
C14_TareBeforeLoadAlways ==
  [][(manual_roast_state = TARE /\ manual_roast_state' = LOAD)
       => Has(events', "tare")]_vars

\* C14: a manual_roast pass issues a tare exactly when its switch evaluates
\* TARE, issues it once, and then leaves LOAD; so a pass without a manual
\* advance never moves the phase from TARE to LOAD without a tare.
C14_TareOnEvaluation ==
  evaluated # NSTATES
    => /\ Has(events, "tare") <=> evaluated = TARE
       /\ evaluated = TARE
            => /\ Count(events, "tare") = 1
               /\ Before(events, "switch", "tare")
               /\ manual_roast_state = LOAD
       /\ (evaluated = LOAD /\ ~Has(events, "advance"))
            => manual_roast_state = LOAD /\ ~Has(events, "tare")

\* A pass without a manual advance that evaluated TARE, issued the tare and
\* left LOAD.
C14_Witness ==
  /\ evaluated = TARE /\ ~Has(events, "advance")
  /\ Has(events, "tare")
  /\ manual_roast_state = LOAD

\* C15: the phase index decreases only in a pass with a manual advance that
\* starts in DONE and evaluates READY; a pass without a manual advance never
\* decreases it and leaves DONE in DONE.
C15_BackOnlyByAdvance ==
  [][/\ manual_roast_state' < manual_roast_state
          => /\ Has(events', "advance")
             /\ manual_roast_state = DONE
             /\ evaluated' = READY
     /\ (roast_t' # roast_t /\ ~Has(events', "advance"))
          => /\ manual_roast_state' >= manual_roast_state
             /\ manual_roast_state = DONE => manual_roast_state' = DONE]_vars

\* A pass without a manual advance in DONE, the intake hot and the heat above
\* the drop threshold, that stayed in DONE.
C15_Witness ==
  /\ evaluated = DONE /\ ~Has(events, "advance")
  /\ manual_roast_state = DONE
  /\ intake_temp_f = 32600 /\ heat_duty = 11 /\ bean_temp_f = 8000

\* C16: after every manual_roast pass the six session globals are as they
\* stood between the switch and the render block, whether or not the render
\* and telemetry blocks ran; a render leaves last_display_time, and a
\* telemetry emission last_serial_write_time, at the time of the pass.
C16_BlocksKeepSession ==
  Has(events, "switch")
    => /\ at_switch.manual_roast_state = manual_roast_state
       /\ at_switch.start_total_time = start_total_time
       /\ at_switch.start_roast_time = start_roast_time
       /\ at_switch.elapsed_total_time = elapsed_total_time
       /\ at_switch.elapsed_roast_time = elapsed_roast_time
       /\ at_switch.drop_percent = drop_percent
       /\ Has(events, "render") => last_display_time = roast_t
       /\ Has(events, "telemetry") => last_serial_write_time = roast_t

\* A ROAST pass that rendered and printed with a negative drop percentage:
\* the display showed 0 and drop_percent stayed negative.
C16_Witness ==
  /\ evaluated = ROAST
  /\ Has(events, "render") /\ Has(events, "telemetry")
  /\ at_switch.drop_percent[1] < 0 /\ drop_percent[1] < 0
  /\ display_out[1].drop = <<0, 0>>
  /\ elapsed_roast_time > 0

SinceWrapOrigin(t) ==
  IF t >= WrapOrigin THEN t - WrapOrigin
                     ELSE ((t - INT_MIN) + WrapLead) + 1

\* C18: across the wrap of the 32-bit clock value each gate runs exactly on
\* the passes where the real time since it last ran exceeds (for temperature
\* sampling: has reached) its period; it runs at most one period plus one
\* pass gap after it last ran, and records the time it ran.
C18_GatesAcrossWrap ==
  [][(loop_t' # loop_t)
       => LET now == SinceWrapOrigin(roast_t')
              gap == now - SinceWrapOrigin(roast_t)
              serial == now - SinceWrapOrigin(last_serial_write_time)
              render == now - SinceWrapOrigin(last_display_time)
              temp == SinceWrapOrigin(loop_t')
                        - SinceWrapOrigin(start_temp_sample)
          IN /\ Has(events', "telemetry") <=> serial > 250
             /\ Has(events', "telemetry")
                  => serial <= 250 + gap /\ last_serial_write_time' = roast_t'
             /\ Has(events', "render") <=> render > 16
             /\ Has(events', "render")
                  => render <= 16 + gap /\ last_display_time' = roast_t'
             /\ Has(events', "sample_temps") <=> temp >= 250
             /\ Has(events', "sample_temps")
                  => temp < 250 + gap /\ start_temp_sample' = loop_t']_vars

\* The pass 201 ms after the wrap, 251 ms after the pass 49 ms before it:
\* every gate that ran just before the wrap runs again.
C18_Witness ==
  /\ roast_t = INT_MIN + 201
  /\ Has(events, "telemetry") /\ last_serial_write_time = roast_t
  /\ Has(events, "render") /\ last_display_time = roast_t
  /\ Has(events, "sample_temps") /\ start_temp_sample = loop_t

\* C19: manual_roast_state is always one of the eight phases; it is READY
\* only before the first manual_roast pass, so no pass ends in READY and no
\* frame or telemetry line names the phase "prep" or "wrap".
C19_PhaseRange ==
  /\ manual_roast_state \in READY .. DONE
  /\ manual_roast_state = READY => (evaluated = NSTATES /\ events = <<>>)
  /\ Has(events, "switch") => manual_roast_state # READY
  /\ (evaluated # NSTATES /\ Len(display_out) = 1)
       => /\ display_out[1].phase \notin {"prep", "wrap"}
          /\ display_out[1].phase = PhaseNames[manual_roast_state + 1]
  /\ Len(serial_out) = 1
       => /\ serial_out[1][3] \notin {"prep", "wrap"}
          /\ serial_out[1][3] = PhaseNames[manual_roast_state + 1]

\* A pass with a manual advance out of DONE, after a session that roasted:
\* the switch evaluated READY and the frame names the phase "heat".
C19_Witness ==
  /\ evaluated = READY /\ Has(events, "advance")
  /\ manual_roast_state = PREHEAT
  /\ Len(display_out) = 1 /\ display_out[1].phase = "heat"
  /\ elapsed_roast_time > 0

\* C20: a pass whose switch evaluates a phase other than ROAST leaves
\* drop_percent unchanged, and every frame and telemetry line carries the
\* retained value (the frame clamped at 0).
C20_DropPercentRetained ==
  [][(roast_t' # roast_t)
       => /\ evaluated' # ROAST => drop_percent' = drop_percent
          /\ Len(display_out') = 1
               => display_out'[1].drop
                    = IF drop_percent'[1] > 0 THEN drop_percent'
                                              ELSE <<0, 0>>
          /\ Len(serial_out') = 1
               => serial_out'[1][9] = drop_percent']_vars

\* A pass of the next session, before its ROAST phase, that shows the 50
\* percent (the float 13107200 * 2^-18) the last ROAST pass of the previous
\* session computed.
C20_Witness ==
  /\ evaluated \in {READY, PREHEAT, TARE, LOAD}
  /\ manual_roast_state \in {PREHEAT, TARE, LOAD}
  /\ drop_percent = <<13107200, -18>>
  /\ Len(display_out) = 1 /\ display_out[1].drop = <<13107200, -18>>
  /\ Len(serial_out) = 1 /\ serial_out[1][9] = <<13107200, -18>>

=============================================================================
